---------------------------- MODULE Spec2Model ----------------------------
(***************************************************************************)
(* A model of python/lib/Processor.py: the YOLOv5 TensorRT Processor.      *)
(*                                                                         *)
(* numpy arrays are modelled as numpy stores them: a shape and a flat      *)
(* row-major data sequence, so that reshape, meshgrid, stack and indexing  *)
(* are index arithmetic and not identities.                                *)
(*                                                                         *)
(* Real numbers are fixed point.  sigmoid outputs are quarters (unit       *)
(* 1/One); pixel quantities are eighths of a pixel (unit 1/PX).  With      *)
(* these units every decode formula of the source is exact.                *)
(***************************************************************************)
EXTENDS Integers, Sequences, FiniteSets, TLC

VARIABLES
    last,       \* the last call of a pure method: its name, inputs, outcome
    hostIn,     \* self.inputs[0]['host']: the image the attribute refers to
    devIn,      \* device input buffer: the image it holds
    devOut,     \* device output buffers: the image they were computed from
    hostOut,    \* self.outputs[k]['host']: page-locked host output buffers
    stream,     \* self.stream: the operations enqueued and not yet run
    enq,        \* number of operations ever enqueued on the stream
    pc,         \* per caller thread: its position in detect / inference
    img,        \* per caller thread: the image of its current call
    target,     \* per caller thread: what its synchronize waits for
    results,    \* the reshaped lists returned by finished detect calls
    calls       \* number of detect calls started

vars == <<last, hostIn, devIn, devOut, hostOut, stream, enq, pc, img, target,
          results, calls>>

detectVars == <<hostIn, devIn, devOut, hostOut, stream, enq, pc, img, target,
                results, calls>>

(***************************************************************************)
(* Bounds of the model.                                                    *)
(***************************************************************************)
\* widest grid make_grid is called with
MaxGridArg == 3
\* longest box list handed to nms / most rows of a prediction
MaxBoxes == 2
\* number of classes in the modelled tensors (the program: 80)
NumCls == 1
\* candidates of a tensor whose objectness differs from the background
MaxHot == 2
\* detect calls in a run
MaxCalls == 2
\* distinct images given to detect
MaxImages == 2
\* largest class id of a detection
MaxCls == 1

(***************************************************************************)
(* Program constants.                                                      *)
(***************************************************************************)
nl == 3
na == 3
no == NumCls + 5
min_wh == 2
max_wh == 4096
\* self.output_shapes
output_shapes == << <<1, 3, 80, 80, 85>>, <<1, 3, 40, 40, 85>>, <<1, 3, 20, 20, 85>> >>
strides == <<8, 16, 32>>
anchors == << << <<10, 13>>, <<16, 30>>, <<33, 23>> >>,
              << <<30, 61>>, <<62, 45>>, <<59, 119>> >>,
              << <<116, 90>>, <<156, 198>>, <<373, 326>> >> >>

\* fixed point: sigmoid values are multiples of 1/One, pixels of 1/PX
One == 2 * 2
PX == 2 * One

(***************************************************************************)
(* numpy arrays: [shape, data], data in row-major (C) order.               *)
(***************************************************************************)
RECURSIVE Prod(_)
Prod(s) == IF s = <<>> THEN 1 ELSE Head(s) * Prod(Tail(s))

\* flat 0-based offset of the 0-based index tuple idx in an array of shape s
RECURSIVE Offset(_, _)
Offset(s, idx) ==
    IF s = <<>> THEN 0
    ELSE Head(idx) * Prod(Tail(s)) + Offset(Tail(s), Tail(idx))

At(arr, idx) == arr.data[Offset(arr.shape, idx) + 1]

\* np.arange(n)
Arange(n) == [shape |-> <<n>>, data |-> [i \in 1..n |-> i - 1]]

\* ndarray.reshape(shape): the same data under a new shape; numpy raises
\* ValueError when the element counts differ
CanReshape(size, shape) == size = Prod(shape)

Reshape(arr, shape) == [shape |-> shape, data |-> arr.data]

\* np.meshgrid(x, y), default indexing 'xy': two arrays of shape
\* (len(y), len(x)); the first repeats x along rows, the second y along columns
Meshgrid(x, y) ==
    LET nx == x.shape[1]
        ny == y.shape[1]
    IN  << [shape |-> <<ny, nx>>,
            data |-> [f \in 1..(ny * nx) |-> x.data[((f - 1) % nx) + 1]]],
           [shape |-> <<ny, nx>>,
            data |-> [f \in 1..(ny * nx) |-> y.data[((f - 1) \div nx) + 1]]] >>

\* np.stack((a, b), axis=2) of two arrays of the same 2-D shape
Stack2(a, b) ==
    [shape |-> a.shape \o <<2>>,
     data |-> [f \in 1..(2 * Len(a.data)) |->
                 IF (f - 1) % 2 = 0 THEN a.data[((f - 1) \div 2) + 1]
                                    ELSE b.data[((f - 1) \div 2) + 1]]]

(***************************************************************************)
(* make_grid                                                               *)
(***************************************************************************)
\* the same with the two stacked arrays in the other order
MakeGridSwapped(nx, ny) ==
    LET m == Meshgrid(Arange(ny), Arange(nx))
    IN  Reshape(Stack2(m[2], m[1]), <<1, 1, ny, nx, 2>>)

make_grid(nx, ny) ==
    LET nx_vec == Arange(nx)
        ny_vec == Arange(ny)
        m == Meshgrid(ny_vec, nx_vec)
        yv == m[1]
        xv == m[2]
        grid == Stack2(yv, xv)
    IN  Reshape(grid, <<1, 1, ny, nx, 2>>)


(***************************************************************************)
(* sigmoid_v: 1 / (exp(-x) + 1) elementwise, to the nearest quarter.  In   *)
(* float32 a large logit gives exactly 1.0 and a very negative one exactly *)
(* 0.0, so both ends of [0,1] are values the program produces.             *)
(***************************************************************************)
Sigmoid(x) ==
    CASE x <= -2 -> 0
      [] x = -1  -> 1
      [] x = 0   -> 2
      [] x = 1   -> 3
      [] OTHER   -> One

sigmoid_v(arr) ==
    [shape |-> arr.shape, data |-> [f \in 1..Len(arr.data) |-> Sigmoid(arr.data[f])]]

\* self.anchor_grid[s]: the anchors of scale s (1-based), shape (1, 3, 1, 1, 2)
anchor_grid(s) ==
    [shape |-> <<1, na, 1, 1, 2>>,
     data |-> [f \in 1..(na * 2) |-> anchors[s][((f - 1) \div 2) + 1][((f - 1) % 2) + 1]]]

\* a threshold is a rational <<num, den>>; v is in units of 1/One
Above(v, thres) == v * thres[2] > thres[1] * One

AboveOrEqual(v, thres) == v * thres[2] >= thres[1] * One

(***************************************************************************)
(* xywh2xyxy: rows [x, y, w, h] to [x1, y1, x2, y2].  Widths are even      *)
(* multiples of 1/PX, so the halves are exact.                             *)
(***************************************************************************)
\* the signs of the half sizes exchanged
Xywh2xyxyFlipped(x) ==
    [shape |-> x.shape,
     data |-> [f \in 1..Len(x.data) |->
        LET r == (f - 1) \div 4
            c == (f - 1) % 4
            v(k) == x.data[r * 4 + k + 1]
        IN  CASE c = 0 -> v(0) + v(2) \div 2
              [] c = 1 -> v(1) + v(3) \div 2
              [] c = 2 -> v(0) - v(2) \div 2
              [] OTHER -> v(1) - v(3) \div 2]]

xywh2xyxy(x) ==
    [shape |-> x.shape,
     data |-> [f \in 1..Len(x.data) |->
        LET r == (f - 1) \div 4
            c == (f - 1) % 4
            v(k) == x.data[r * 4 + k + 1]
        IN  CASE c = 0 -> v(0) - v(2) \div 2
              [] c = 1 -> v(1) - v(3) \div 2
              [] c = 2 -> v(0) + v(2) \div 2
              [] OTHER -> v(1) + v(3) \div 2]]

(***************************************************************************)
(* extract_boxes                                                           *)
(***************************************************************************)
\* lines 146-147 for one element: attribute d of a cell, v its sigmoid,
\* g the grid entry and anch the anchor entry broadcast to it
DecodeValue(d, v, g, stride, anch) ==
    CASE d < 2 ->
           \* (v * 2. - 0.5 + grid) * stride
           (4 * v - One + 2 * One * g) * stride
      [] d >= 2 /\ d < 4 ->
           \* (v * 2) ** 2 * anchor
           (8 * v * v * anch) \div One
      [] OTHER -> v

\* lines 146-147 on one sigmoid-activated scale tensor of shape
\* (1, 3, width, height, no): centre and size decode, in place
DecodeScale(out, grid, stride, anchor) ==
    LET width == out.shape[3]
        height == out.shape[4]
        n == out.shape[5]
    IN  [shape |-> out.shape,
         data |-> [f \in 1..Len(out.data) |->
            LET d == (f - 1) % n
                j == ((f - 1) \div n) % height
                i == ((f - 1) \div (n * height)) % width
                a == (f - 1) \div (n * height * width)
            IN  DecodeValue(d, out.data[f],
                            IF d < 2 THEN At(grid, <<0, 0, i, j, d>>) ELSE 0,
                            stride,
                            IF d >= 2 /\ d < 4 THEN At(anchor, <<0, a, 0, 0, d - 2>>)
                                               ELSE 0)]]

\* np.concatenate(z, 1) of arrays of shape (1, n_k, no)
RECURSIVE ConcatData(_)
ConcatData(z) == IF z = <<>> THEN <<>> ELSE Head(z).data \o ConcatData(Tail(z))

RECURSIVE SumRows(_)
SumRows(z) == IF z = <<>> THEN 0 ELSE Head(z).shape[2] + SumRows(Tail(z))

Concatenate1(z) == [shape |-> <<1, SumRows(z), Head(z).shape[3]>>, data |-> ConcatData(z)]

\* the keep mask with >= in place of >
ConfMaskGe(pred, conf_thres) ==
    [r \in 1..pred.shape[2] |-> AboveOrEqual(At(pred, <<0, r - 1, 4>>), conf_thres)]

\* xc = pred[..., 4] > conf_thres
ConfMask(pred, conf_thres) ==
    [r \in 1..pred.shape[2] |-> Above(At(pred, <<0, r - 1, 4>>), conf_thres)]

\* the 1-based rows r <= n with xc[r], in increasing order
RECURSIVE KeptRows(_, _)
KeptRows(xc, n) ==
    IF n = 0 THEN <<>>
    ELSE KeptRows(xc, n - 1) \o (IF xc[n] THEN <<n>> ELSE <<>>)

\* pred[xc][:, :ncol]: the masked rows of a (1, N, no) array, first ncol columns
MaskedCols(pred, xc, ncol) ==
    LET rows == KeptRows(xc, pred.shape[2])
    IN  [shape |-> <<Len(rows), ncol>>,
         data |-> [f \in 1..(Len(rows) * ncol) |->
                     At(pred, <<0, rows[((f - 1) \div ncol) + 1] - 1, (f - 1) % ncol>>)]]

extract_boxes(output, conf_thres) ==
    LET scaled == [k \in 1..Len(output) |-> sigmoid_v(output[k])]
        grids == [k \in 1..Len(output) |->
                    make_grid(scaled[k].shape[3], scaled[k].shape[4])]
        z == [k \in 1..Len(output) |->
                LET out == DecodeScale(scaled[k], grids[k], strides[k], anchor_grid(k))
                IN  Reshape(out, <<1, 3 * out.shape[3] * out.shape[4], no>>)]
        pred == Concatenate1(z)
        xc == ConfMask(pred, conf_thres)
    IN  xywh2xyxy(MaskedCols(pred, xc, 4))

(***************************************************************************)
(* extract_class_grids: per scale sigmoid(class) * sigmoid(objectness),    *)
(* shape (1, 3, w, h, nc), in units of 1/(One*One).                        *)
(***************************************************************************)
ClassGrid(out) ==
    LET n == out.shape[5]
        ncl == n - 5
        cells == Len(out.data) \div n
    IN  [shape |-> <<out.shape[1], out.shape[2], out.shape[3], out.shape[4], ncl>>,
         data |-> [f \in 1..(cells * ncl) |->
            LET cell == (f - 1) \div ncl
                c == (f - 1) % ncl
                object_probs == Sigmoid(out.data[cell * n + 4 + 1])
                class_probs == Sigmoid(out.data[cell * n + 5 + c + 1])
            IN  class_probs * object_probs]]

extract_class_grids(output) == [k \in 1..Len(output) |-> ClassGrid(output[k])]


(***************************************************************************)
(* nms and non_max_suppression.  An outcome is how a call ends:            *)
(* kind "return" (none: the value is None), "raise" (exc: the exception),  *)
(* or "exit" (sys.exit()).                                                 *)
(***************************************************************************)
Return(v) == [kind |-> "return", none |-> FALSE, exc |-> "", value |-> v]

ReturnNone == [kind |-> "return", none |-> TRUE, exc |-> "", value |-> <<>>]

Raise(e) == [kind |-> "raise", none |-> FALSE, exc |-> e, value |-> <<>>]

Exit(v) == [kind |-> "exit", none |-> FALSE, exc |-> "SystemExit", value |-> v]

\* a suppression that returns every box it was given
NmsKeepAll(boxes, scores, iou_thres, max_det) ==
    IF Len(boxes) = 0 THEN Return(<<>>) ELSE Return(boxes)

\* lines 240-246: an empty list for no boxes; otherwise the body ends after
\* the astype conversion and the function returns None
nms(boxes, scores, iou_thres, max_det) ==
    IF Len(boxes) = 0 THEN Return(<<>>) ELSE ReturnNone

\* lines 196-201 for one image x, a sequence of rows [x, y, w, h, obj, cls..]:
\* the rows with objectness > 0.1, their class columns multiplied by it
Thresholded(x) == SelectSeq(x, LAMBDA row : Above(row[5], <<1, 10>>))

Fused(x) ==
    [r \in 1..Len(x) |->
        [c \in 1..Len(x[r]) |-> IF c > 5 THEN x[r][c] * x[r][5] ELSE x[r][c]]]

\* lines 184-237 on pred, a sequence of images: pred[0] fails on an empty
\* batch; x[0] fails when the first image has no row left; otherwise the
\* loop body reaches sys.exit() in its first iteration
non_max_suppression(pred) ==
    IF Len(pred) = 0 THEN Raise("IndexError")
    ELSE LET x == Fused(Thresholded(pred[1]))
         IN  IF Len(x) = 0 THEN Raise("IndexError") ELSE Exit(x)

\* the offset taken from min_wh instead of max_wh
ClassOffsetBoxesMinWh(x) ==
    [r \in 1..Len(x) |-> [c \in 1..4 |-> x[r][c] + x[r][6] * min_wh * PX]]

\* lines 226-228 on a detection matrix of rows [x1, y1, x2, y2, conf, cls]:
\* boxes = x[:, :4] + x[:, 5:6] * max_wh
ClassOffsetBoxes(x) ==
    [r \in 1..Len(x) |-> [c \in 1..4 |-> x[r][c] + x[r][6] * max_wh * PX]]


(***************************************************************************)
(* The inputs the calls are made with.                                     *)
(***************************************************************************)
Logits == {-100, -1, 0, 1, 100}

\* [tx, ty, tw, th] of a cell
BoxVecs == << <<-100, 1, 100, -1>>, <<1, 0, -100, 100>>, <<0, 100, 1, 0>> >>

\* grid sizes of the modelled tensors (the program: 80, 40, 20)
ModelGrids == <<2, 1, 1>>

Cands == {c \in (1..nl) \X (0..(na - 1)) \X (0..(ModelGrids[1] - 1))
                                          \X (0..(ModelGrids[1] - 1)) :
            c[3] < ModelGrids[c[1]] /\ c[4] < ModelGrids[c[1]]}

RECURSIVE HotSets(_)
HotSets(k) ==
    IF k = 0 THEN {{}}
    ELSE LET p == HotSets(k - 1) IN p \cup {h \cup {c} : h \in p, c \in Cands}

\* the logit of attribute d (0-based) of candidate c under the parameters p
CellLogit(p, c, d) ==
    CASE d < 4 -> BoxVecs[p.box][d + 1]
      [] d = 4 -> IF c \in p.hot THEN p.hotObj ELSE p.bgObj
      [] OTHER -> LET v == IF c \in p.hot THEN p.hotCls ELSE p.bgCls
                  IN  IF (d - 5) % 2 = 0 THEN v ELSE 0 - v

\* the raw tensors of the parameters p: one array of shape (1, 3, g, g, no)
\* per scale
BuildOutput(p) ==
    [s \in 1..nl |->
        LET g == ModelGrids[s]
        IN  [shape |-> <<1, na, g, g, no>>,
             data |-> [f \in 1..(na * g * g * no) |->
                CellLogit(p, <<s, (f - 1) \div (no * g * g),
                               ((f - 1) \div (no * g)) % g,
                               ((f - 1) \div no) % g>>, (f - 1) % no)]]]

Thresholds == {<<1, 2>>, <<1, 4>>}

BoxesInputs ==
    [hot : HotSets(MaxHot), hotObj : {-1, 0, 1}, bgObj : {-100, 0},
     box : 1..Len(BoxVecs), hotCls : {0}, bgCls : {0}, thres : Thresholds]

ClassInputs ==
    [hot : HotSets(1), hotObj : Logits, bgObj : {-100, 0},
     box : {1}, hotCls : Logits, bgCls : {-1, 100}, thres : {<<1, 2>>}]

GridInputs == (1..MaxGridArg) \X (1..MaxGridArg)

\* corner boxes [x1, y1, x2, y2] and scores (in units of 1/One) given to nms
NmsBoxes == { <<0, 0, 10, 10>>, <<0, 0, 10, 9>>, <<20, 20, 30, 30>>, <<5, 5, 5, 5>> }

RECURSIVE SeqsUpTo(_, _)
SeqsUpTo(S, n) ==
    IF n = 0 THEN {<<>>}
    ELSE LET p == SeqsUpTo(S, n - 1)
         IN  p \cup {Append(q, x) : q \in {r \in p : Len(r) = n - 1}, x \in S}

NmsInputs ==
    {[boxes |-> [k \in 1..Len(d) |-> d[k][1]], scores |-> [k \in 1..Len(d) |-> d[k][2]],
      iou_thres |-> t, max_det |-> m] :
        d \in SeqsUpTo(NmsBoxes \X {2, 3}, MaxBoxes),
        t \in {<<1, 2>>, <<3, 5>>}, m \in 0..MaxBoxes}

\* prediction rows [x, y, w, h, obj, cls..]: centre form in 1/PX pixels,
\* probabilities in 1/One
PredRows ==
    {<<80, 80, 16, 16, o>> \o [c \in 1..NumCls |-> k] : o \in {0, 2}, k \in {1, One}}

\* a batch is an array (B, N, no): every image has the same number of rows
PredInputs ==
    {<<>>} \cup
    UNION {{<<x>>} \cup {<<x, y>> : y \in {r \in SeqsUpTo(PredRows, MaxBoxes) :
                                              Len(r) = Len(x)}} :
           x \in SeqsUpTo(PredRows, MaxBoxes)}

Pending(op, in) ==
    [op |-> op, in |-> in, kind |-> "pending", none |-> FALSE, exc |-> "",
     value |-> <<>>]

Done(call, outcome) ==
    [op |-> call.op, in |-> call.in, kind |-> outcome.kind, none |-> outcome.none,
     exc |-> outcome.exc, value |-> outcome.value]

Idle == Pending("none", <<>>)


(***************************************************************************)
(* detect and inference.  An image is known by its id; a buffer holds the  *)
(* id of the image its content was computed from (0: never written).  The  *)
(* stream runs what is enqueued on it in order, asynchronously.            *)
(***************************************************************************)
Callers == {1, 2}

Images == 1..MaxImages

Op(o, a) == [op |-> o, arg |-> a]

At_(p, k) == [at |-> p, k |-> k]

\* the element counts the engine's output bindings may have: the configured
\* one, that of a model with one class less, that of half the resolution
EngineSizes(k) ==
    LET sh == output_shapes[k]
    IN  {Prod(sh), sh[2] * sh[3] * sh[4] * (sh[5] - 1),
         sh[2] * (sh[3] \div 2) * (sh[4] \div 2) * sh[5]}

\* ndarray.reshape succeeding whatever the size (as np.resize would)
ReshapeLoopUnchecked(outputs, shapes) ==
    Return([k \in 1..(IF Len(outputs) < Len(shapes) THEN Len(outputs) ELSE Len(shapes))
              |-> [base |-> outputs[k].base, shape |-> shapes[k]]])

\* lines 83-86: reshaped.append(output.reshape(shape)) over zip(outputs,
\* self.output_shapes); reshape returns a view of the buffer and raises
\* ValueError when the element counts differ
RECURSIVE ReshapeFrom(_, _, _, _)
ReshapeFrom(outputs, shapes, k, reshaped) ==
    IF k > Len(outputs) \/ k > Len(shapes) THEN Return(reshaped)
    ELSE IF ~CanReshape(outputs[k].size, shapes[k]) THEN Raise("ValueError")
    ELSE ReshapeFrom(outputs, shapes, k + 1,
                     Append(reshaped, [base |-> outputs[k].base, shape |-> shapes[k]]))

ReshapeLoop(outputs, shapes) == ReshapeFrom(outputs, shapes, 1, <<>>)

\* what an array that is a view of host output buffer `base` reads now
ViewData(view) == hostOut[view.base].data

\* line 79-80, 97: a caller enters detect with an image; pre_process makes a
\* new array of it
DetectStart(t) ==
    /\ pc[t].at = "idle"
    /\ calls < MaxCalls
    /\ \E i \in Images : img' = [img EXCEPT ![t] = i]
    /\ calls' = calls + 1
    /\ pc' = [pc EXCEPT ![t] = At_("set", 0)]
    /\ UNCHANGED <<last, hostIn, devIn, devOut, hostOut, stream, enq, target, results>>

\* line 100: self.inputs[0]['host'] = np.ravel(img)
SetHostInput(t) ==
    /\ pc[t].at = "set"
    /\ hostIn' = img[t]
    /\ pc' = [pc EXCEPT ![t] = At_("htod", 0)]
    /\ UNCHANGED <<last, devIn, devOut, hostOut, stream, enq, img, target, results, calls>>

\* lines 102-103: cuda.memcpy_htod_async(inp['device'], inp['host'], stream)
EnqueueHtoD(t) ==
    /\ pc[t].at = "htod"
    /\ stream' = Append(stream, Op("htod", hostIn))
    /\ enq' = enq + 1
    /\ pc' = [pc EXCEPT ![t] = At_("exec", 0)]
    /\ UNCHANGED <<last, hostIn, devIn, devOut, hostOut, img, target, results, calls>>

\* lines 105-107: self.context.execute_async_v2(...)
EnqueueExecute(t) ==
    /\ pc[t].at = "exec"
    /\ stream' = Append(stream, Op("exec", 0))
    /\ enq' = enq + 1
    /\ pc' = [pc EXCEPT ![t] = At_("dtoh", 1)]
    /\ UNCHANGED <<last, hostIn, devIn, devOut, hostOut, img, target, results, calls>>

\* lines 109-110: one cuda.memcpy_dtoh_async per output
EnqueueDtoH(t) ==
    /\ pc[t].at = "dtoh"
    /\ stream' = Append(stream, Op("dtoh", pc[t].k))
    /\ enq' = enq + 1
    /\ pc' = [pc EXCEPT ![t] = IF pc[t].k < nl THEN At_("dtoh", pc[t].k + 1)
                                               ELSE At_("sync", 0)]
    /\ UNCHANGED <<last, hostIn, devIn, devOut, hostOut, img, target, results, calls>>

\* line 112: self.stream.synchronize() is called: it waits for everything
\* enqueued so far
SynchronizeCall(t) ==
    /\ pc[t].at = "sync"
    /\ target' = [target EXCEPT ![t] = enq]
    /\ pc' = [pc EXCEPT ![t] = At_("wait", 0)]
    /\ UNCHANGED <<last, hostIn, devIn, devOut, hostOut, stream, enq, img, results, calls>>

\* line 112 returns; line 113 lists the host buffers; lines 83-86 reshape
\* them; detect returns the list or the ValueError propagates
DetectReturn(t) ==
    /\ pc[t].at = "wait"
    /\ enq - Len(stream) >= target[t]
    /\ LET outputs == [k \in 1..nl |-> [base |-> k, size |-> hostOut[k].size]]
           outcome == ReshapeLoop(outputs, output_shapes)
       IN  results' = Append(results,
                [img |-> img[t], kind |-> outcome.kind, exc |-> outcome.exc,
                 value |-> outcome.value,
                 seen |-> [k \in 1..Len(outcome.value) |-> ViewData(outcome.value[k])]])
    /\ pc' = [pc EXCEPT ![t] = At_("idle", 0)]
    /\ UNCHANGED <<last, hostIn, devIn, devOut, hostOut, stream, enq, img, target, calls>>

\* the stream runs its oldest operation
StreamRun ==
    /\ stream # <<>>
    /\ LET o == Head(stream)
       IN  /\ devIn' = IF o.op = "htod" THEN o.arg ELSE devIn
           /\ devOut' = IF o.op = "exec" THEN devIn ELSE devOut
           /\ hostOut' = IF o.op = "dtoh"
                         THEN [hostOut EXCEPT ![o.arg].data = devOut]
                         ELSE hostOut
    /\ stream' = Tail(stream)
    /\ UNCHANGED <<last, hostIn, enq, pc, img, target, results, calls>>

Step(t) ==
    \/ DetectStart(t)
    \/ SetHostInput(t)
    \/ EnqueueHtoD(t)
    \/ EnqueueExecute(t)
    \/ EnqueueDtoH(t)
    \/ SynchronizeCall(t)
    \/ DetectReturn(t)

\* lines 19-37: after construction: page-locked host buffers of the sizes the
\* engine's bindings have, nothing enqueued, no call in progress
InitProcessor ==
    /\ hostIn = 0
    /\ devIn = 0
    /\ devOut = 0
    /\ stream = <<>>
    /\ enq = 0
    /\ pc = [t \in Callers |-> At_("idle", 0)]
    /\ img = [t \in Callers |-> 0]
    /\ target = [t \in Callers |-> 0]
    /\ results = <<>>
    /\ calls = 0

InitDetect ==
    /\ last = Idle
    /\ hostOut \in [1..nl -> UNION {[size : EngineSizes(k), data : {0}] : k \in 1..nl}]
    /\ \A k \in 1..nl : hostOut[k].size \in EngineSizes(k)
    /\ InitProcessor

\* one caller: detect calls one after the other
NextDetect == Step(1) \/ StreamRun

SpecDetect == InitDetect /\ [][NextDetect]_vars

\* one caller per thread, on the same Processor
NextParallel == (\E t \in Callers : Step(t)) \/ StreamRun

SpecParallel == InitDetect /\ [][NextParallel]_vars


(***************************************************************************)
(* The post-processing methods, each applied to an input drawn at the      *)
(* start.  They read the Processor's configuration and change nothing.     *)
(***************************************************************************)
ConfiguredBuffers == [k \in 1..nl |-> [size |-> Prod(output_shapes[k]), data |-> 0]]

InitCalls ==
    /\ last \in {Pending("make_grid", i) : i \in GridInputs}
             \cup {Pending("extract_boxes", i) : i \in BoxesInputs}
             \cup {Pending("extract_class_grids", i) : i \in ClassInputs}
             \cup {Pending("nms", i) : i \in NmsInputs}
             \cup {Pending("non_max_suppression", i) : i \in PredInputs}
    /\ hostOut = ConfiguredBuffers
    /\ InitProcessor

IsPending(op) == last.kind = "pending" /\ last.op = op

CallMakeGrid ==
    /\ IsPending("make_grid")
    /\ last' = Done(last, Return(make_grid(last.in[1], last.in[2])))
    /\ UNCHANGED detectVars

CallExtractBoxes ==
    /\ IsPending("extract_boxes")
    /\ last' = Done(last, Return(extract_boxes(BuildOutput(last.in), last.in.thres)))
    /\ UNCHANGED detectVars

CallExtractClassGrids ==
    /\ IsPending("extract_class_grids")
    /\ last' = Done(last, Return(extract_class_grids(BuildOutput(last.in))))
    /\ UNCHANGED detectVars

CallNms ==
    /\ IsPending("nms")
    /\ last' = Done(last, nms(last.in.boxes, last.in.scores, last.in.iou_thres,
                              last.in.max_det))
    /\ UNCHANGED detectVars

CallNonMaxSuppression ==
    /\ IsPending("non_max_suppression")
    /\ last' = Done(last, non_max_suppression(last.in))
    /\ UNCHANGED detectVars

Next ==
    \/ CallMakeGrid
    \/ CallExtractBoxes
    \/ CallExtractClassGrids
    \/ CallNms
    \/ CallNonMaxSuppression

Spec == InitCalls /\ [][Next]_vars


(***************************************************************************)
(* The class offset on boxes decoded under the configured model: grids     *)
(* 80/40/20 with their strides and anchors.                                *)
(***************************************************************************)
\* the grids extract_boxes makes for tensors of the configured shapes
ConfigGrids == [s \in 1..nl |-> make_grid(output_shapes[s][3], output_shapes[s][4])]

\* lines 144-153 for the cell (a, i, j) of scale s with box logits t: the
\* decoded row [x, y, w, h] converted to corners
DecodeCandidate(s, a, i, j, t) ==
    LET row == [shape |-> <<1, 4>>,
                data |-> [f \in 1..4 |->
                    DecodeValue(f - 1, Sigmoid(t[f]),
                                IF f <= 2 THEN At(ConfigGrids[s], <<0, 0, i, j, f - 1>>) ELSE 0,
                                strides[s],
                                IF f > 2 THEN At(anchor_grid(s), <<0, a, 0, 0, f - 3>>) ELSE 0)]]
    IN  xywh2xyxy(row).data

\* centre and size logits at the ends of the sigmoid's range
EndVecs == { <<-100, -100, -100, -100>>, <<100, 100, 100, 100>>,
             <<-100, -100, 100, 100>>, <<100, 100, -100, -100>> }

\* the cells at the corners of each configured grid
CornerCands ==
    {c \in (1..nl) \X (0..(na - 1)) \X (0..(output_shapes[1][3] - 1))
                                    \X (0..(output_shapes[1][4] - 1)) :
        /\ c[3] \in {0, output_shapes[c[1]][3] - 1}
        /\ c[4] \in {0, output_shapes[c[1]][4] - 1}}

Detections == [cand : CornerCands, t : EndVecs, cls : 0..MaxCls]

\* the detection matrix row [x1, y1, x2, y2, conf, cls] of a detection
DetectionRow(d) ==
    DecodeCandidate(d.cand[1], d.cand[2], d.cand[3], d.cand[4], d.t) \o <<One, d.cls>>

InitOffset ==
    /\ last \in {Pending("class_offset", <<d1, d2>>) : d1 \in Detections, d2 \in Detections}
    /\ hostOut = ConfiguredBuffers
    /\ InitProcessor

CallClassOffset ==
    /\ IsPending("class_offset")
    /\ last' = Done(last, Return(ClassOffsetBoxes(
                    <<DetectionRow(last.in[1]), DetectionRow(last.in[2])>>)))
    /\ UNCHANGED detectVars

NextOffset == CallClassOffset

SpecOffset == InitOffset /\ [][NextOffset]_vars


(***************************************************************************)
(* Definitions the properties are stated with.                             *)
(***************************************************************************)
Returned(op) == last.op = op /\ last.kind = "return"

Min(a, b) == IF a < b THEN a ELSE b

Max(a, b) == IF a > b THEN a ELSE b

Area(b) == Max(0, b[3] - b[1]) * Max(0, b[4] - b[2])

InterArea(a, b) ==
    Max(0, Min(a[3], b[3]) - Max(a[1], b[1])) * Max(0, Min(a[4], b[4]) - Max(a[2], b[2]))

\* IoU(a, b) <= thres, with IoU = 0 when the union is empty
IoULe(a, b, thres) ==
    LET inter == InterArea(a, b)
        union == Area(a) + Area(b) - inter
    IN  union = 0 \/ inter * thres[2] <= thres[1] * union

\* the indices of scores by score descending, equal scores in input order
RECURSIVE InsertByScore(_, _, _)
InsertByScore(order, k, scores) ==
    IF order = <<>> THEN <<k>>
    ELSE IF scores[Head(order)] >= scores[k]
         THEN <<Head(order)>> \o InsertByScore(Tail(order), k, scores)
         ELSE <<k>> \o order

RECURSIVE ByScore(_, _)
ByScore(scores, n) ==
    IF n = 0 THEN <<>> ELSE InsertByScore(ByScore(scores, n - 1), n, scores)

\* greedy selection over order: a box is kept exactly when its IoU with
\* every box kept before it is <= thres
RECURSIVE Greedy(_, _, _, _)
Greedy(order, kept, boxes, thres) ==
    IF order = <<>> THEN kept
    ELSE LET k == Head(order)
             ok == \A m \in 1..Len(kept) : IoULe(boxes[k], boxes[kept[m]], thres)
         IN  Greedy(Tail(order), IF ok THEN Append(kept, k) ELSE kept, boxes, thres)

GreedyBoxes(boxes, scores, thres) ==
    LET kept == Greedy(ByScore(scores, Len(scores)), <<>>, boxes, thres)
    IN  [m \in 1..Len(kept) |-> boxes[kept[m]]]

\* the candidates of all scales in concatenation order: scale, then anchor,
\* then row, then column
RECURSIVE CandSeqFrom(_)
CandSeqFrom(s) ==
    IF s > nl THEN <<>>
    ELSE LET g == ModelGrids[s]
         IN  [f \in 1..(na * g * g) |->
                <<s, (f - 1) \div (g * g), ((f - 1) \div g) % g, (f - 1) % g>>]
             \o CandSeqFrom(s + 1)

Objectness(p, c) == Sigmoid(CellLogit(p, c, 4))

Survivors(p) == SelectSeq(CandSeqFrom(1), LAMBDA c : Objectness(p, c) * p.thres[2] > p.thres[1] * One)

\* the corner box of candidate c = (scale, anchor, row, column), in 1/PX
\* pixels: centre (2*sig - 0.5 + column or row) * stride, size
\* (2*sig)^2 * anchor, corners centre -/+ size / 2
ExpectedBox(p, c) ==
    LET sg(d) == Sigmoid(CellLogit(p, c, d))
        cx == (PX * (2 * sg(0) + One * c[4]) * strides[c[1]]) \div One - (PX \div 2) * strides[c[1]]
        cy == (PX * (2 * sg(1) + One * c[3]) * strides[c[1]]) \div One - (PX \div 2) * strides[c[1]]
        w == (PX * 4 * sg(2) * sg(2) * anchors[c[1]][c[2] + 1][1]) \div (One * One)
        h == (PX * 4 * sg(3) * sg(3) * anchors[c[1]][c[2] + 1][2]) \div (One * One)
    IN  <<cx - w \div 2, cy - h \div 2, cx + w \div 2, cy + h \div 2>>

\* row r (1-based) of a 2-D array
Row(arr, r) == [c \in 1..arr.shape[2] |-> At(arr, <<r - 1, c - 1>>)]

\* the element count of scale k's configured output: 3 * g * g * 85
ExpectedCount(k) == LET g == <<80, 40, 20>>[k] IN 3 * g * g * 85

(***************************************************************************)
(* C1: for every non-empty list of boxes with scores, nms returns the      *)
(* greedy selection over the boxes sorted by score descending.             *)
(* Stated as the claim states it; nms returns None instead.                *)
(***************************************************************************)
C1_NmsIsGreedy ==
    (last.op = "nms" /\ last.kind # "pending" /\ Len(last.in.boxes) > 0) =>
        /\ last.kind = "return"
        /\ ~last.none
        /\ last.value = GreedyBoxes(last.in.boxes, last.in.scores, last.in.iou_thres)

(***************************************************************************)
(* C2: extract_boxes returns exactly one box for each candidate whose      *)
(* sigmoid objectness is strictly greater than conf_thres, in the order of *)
(* the concatenated scales (anchor, row, column within a scale), and no    *)
(* other box; objectness equal to conf_thres is dropped.                   *)
(***************************************************************************)
C2_ConfidenceFilter ==
    Returned("extract_boxes") =>
        LET sv == Survivors(last.in)
        IN  /\ last.value.shape = <<Len(sv), 4>>
            /\ \A r \in 1..Len(sv) : Row(last.value, r) = ExpectedBox(last.in, sv[r])

\* a call with two survivors in different scales and candidates whose
\* objectness equals the threshold
C2_Witness ==
    /\ Returned("extract_boxes")
    /\ last.value.shape[1] = 2
    /\ \E c \in last.in.hot, d \in last.in.hot : c[1] # d[1]
    /\ last.in.thres = <<1, 2>>
    /\ last.in.bgObj = 0

C4_ClassesDisjoint ==
    (Returned("class_offset") /\ last.in[1].cls # last.in[2].cls) =>
        InterArea(last.value[1], last.value[2]) = 0

\* two boxes of different classes that overlap before the offset
C4_Witness ==
    /\ Returned("class_offset")
    /\ last.in[1].cls # last.in[2].cls
    /\ InterArea(DetectionRow(last.in[1]), DetectionRow(last.in[2])) > 0
    /\ last.in[1].cand # last.in[2].cand

(***************************************************************************)
(* C5: with no candidate above the threshold, or an empty box list, each   *)
(* of extract_boxes, non_max_suppression and nms returns an empty result   *)
(* without raising or exiting.  Stated as the claim states it;             *)
(* non_max_suppression raises IndexError.                                  *)
(***************************************************************************)
C5_EmptyIsNotAnError ==
    /\ (last.op = "extract_boxes" /\ last.kind # "pending" /\ Survivors(last.in) = <<>>) =>
            (last.kind = "return" /\ ~last.none /\ last.value.shape[1] = 0)
    /\ (last.op = "nms" /\ last.kind # "pending" /\ Len(last.in.boxes) = 0) =>
            (last.kind = "return" /\ ~last.none /\ last.value = <<>>)
    /\ (last.op = "non_max_suppression" /\ last.kind # "pending"
          /\ \A xi \in 1..Len(last.in) : Thresholded(last.in[xi]) = <<>>) =>
            (last.kind = "return" /\ ~last.none
               /\ \A xi \in 1..Len(last.value) : Len(last.value[xi]) = 0)

(***************************************************************************)
(* C6: detect fails with an error and returns no list whenever the output  *)
(* of some scale has an element count other than 3 * g * g * 85.           *)
(***************************************************************************)
C6_ShapeMismatchFails ==
    \A n \in 1..Len(results) :
        (\E k \in 1..nl : hostOut[k].size # ExpectedCount(k)) =>
            (results[n].kind = "raise" /\ results[n].value = <<>>)

\* a finished call where only the last scale's output has a wrong size
C6_Witness ==
    /\ Len(results) > 0
    /\ hostOut[1].size = ExpectedCount(1)
    /\ hostOut[2].size = ExpectedCount(2)
    /\ hostOut[3].size # ExpectedCount(3)
    /\ results[1].kind = "raise"

C8_BoxInvariant ==
    /\ Returned("extract_boxes") =>
            \A r \in 1..last.value.shape[1] :
                LET b == Row(last.value, r) IN b[1] <= b[3] /\ b[2] <= b[4]
    /\ Returned("extract_class_grids") =>
            \A k \in 1..Len(last.value) : \A f \in 1..Len(last.value[k].data) :
                last.value[k].data[f] >= 0 /\ last.value[k].data[f] <= One * One
    /\ (last.op = "non_max_suppression" /\ last.kind = "exit") =>
            \A r \in 1..Len(last.value) : \A c \in 6..Len(last.value[r]) :
                last.value[r][c] >= 0 /\ last.value[r][c] <= One * One

\* a produced box of positive width and height
C8_Witness ==
    /\ Returned("extract_boxes")
    /\ \E r \in 1..last.value.shape[1] :
          LET b == Row(last.value, r) IN b[1] < b[3] /\ b[2] < b[4]

(***************************************************************************)
(* C9: the values held in the result of an earlier detect call are         *)
(* unchanged by later detect calls.  Stated as the claim states it; the    *)
(* results are views of the Processor's host buffers.                      *)
(***************************************************************************)
C9_ResultsStayUnchanged ==
    \A n \in 1..Len(results) :
        results[n].kind = "return" =>
            \A k \in 1..Len(results[n].value) :
                ViewData(results[n].value[k]) = results[n].seen[k]

(***************************************************************************)
(* C10: each of two concurrent detect calls on the same Processor returns  *)
(* the outputs computed from its own image.  Stated as the claim states    *)
(* it; the calls share the input attribute, the buffers and the stream.    *)
(***************************************************************************)
C10_OwnImageOutputs ==
    \A n \in 1..Len(results) :
        results[n].kind = "return" =>
            \A k \in 1..Len(results[n].value) : results[n].seen[k] = results[n].img

=============================================================================
